---------------------------- MODULE Spec2Model ----------------------------
(***************************************************************************)
(* GitHub repository crawler: the retry loop of                            *)
(* GitHubGraphQLClient._execute_query (src/crawler/github_client.py), the  *)
(* crawl loop of main() (src/main.py) and the two store calls of           *)
(* DatabaseManager (src/db/connection.py) it drives.                       *)
(*                                                                         *)
(* Time is counted in tenths of a second, the unit of the loop's courtesy  *)
(* delay time.sleep(0.1).  Only sleeps let time pass: every request and    *)
(* every store call is taken to last no time, the earliest a following     *)
(* request can be sent.  A reset time is kept relative to the clock, as    *)
(* the offset reset_time - time.time() that the code computes.             *)
(***************************************************************************)
EXTENDS Integers, Sequences, FiniteSets

VARIABLES
    pc,           \* position of the process
    caller,       \* who called _execute_query
    attempt,      \* _execute_query: index of the for loop
    result,       \* how the last _execute_query call ended
    trace,        \* log of the current call, kept by SpecQuery only: one entry
                  \* per request (how it was classified, status, remaining, sleep)
    due,          \* time left until reset + margin of the last response, if it
                  \* reported remaining = 0
    dueStatus,    \* status code of that response, kept while the call goes on
                  \* or time is left (0: none)
    response,     \* main: last value returned by fetch_repositories
    repos,        \* main: filtered batch
    cursor,       \* main: cursor (0 is None)
    total_repos,  \* main: total_repos
    repoTable,    \* ids committed to table repositories in this run
    starTable,    \* ids committed to table repository_stars in this run
    stop,         \* how the crawl loop ended
    exitCode,     \* process exit status: 0, 1 for non-zero (-1: still running)
    summarized,   \* the final summary was printed
    exported,     \* export_to_csv has written the file
    clean,        \* no fault so far: every request answered 200 with a page of
                  \* valid records, every store call committed, no interrupt
    repositories,     \* rows of table repositories, by id      (these four are
    repository_stars, \* rows of table repository_stars          followed by
    now,              \* CURRENT_TIMESTAMP of the database       SpecUpsert and
    lastOp            \* batch of the last store call            SpecStars only)

vars == <<pc, caller, attempt, result, trace, due, dueStatus, response,
          repos, cursor, total_repos, repoTable, starTable, stop,
          exitCode, summarized, exported, clean,
          repositories, repository_stars, now, lastOp>>

\* the rows of the two tables; Spec and SpecQuery follow of them the ids
\* only (repoTable, starTable)
storeVars == <<repositories, repository_stars, now, lastOp>>

crawlVars == <<pc, caller, attempt, result, trace, due, dueStatus, response,
               repos, cursor, total_repos, repoTable, starTable, stop,
               exitCode, summarized, exported, clean>>

--------------------------------------------------------------------------
(* Bounds and program constants *)

\* main.py:67 target = 100000, scaled down
TARGET == 3
\* main.py:70 batch_size = 100, scaled down
BATCH == 3
\* github_client.py:50
max_retries == 3
\* main.py:129 time.sleep(0.1)
COURTESY_DELAY == 1

Seconds(n) == 10 * n

\* github_client.py:82, the "+ 10"
SAFETY_MARGIN == Seconds(10)
\* github_client.py:82, the floor 60
MIN_WAIT == Seconds(60)

Max(a, b) == IF a >= b THEN a ELSE b

\* reset_time - time.time(): header absent (reset_time = 0, far in the past)
\* or reset in 100 s
ResetOffsets == {-Seconds(5000), Seconds(100)}

--------------------------------------------------------------------------
(* Records of a page.  A node is a databaseId > 0, NoId (the record has no *)
(* databaseId) or Null (the node is null).                                 *)

Null == -1
NoId == 0

\* the j-th record the source holds after cursor c
RecordId(c, j) == c * BATCH + j

\* the shapes of a page of at most n nodes: at most one node is not a valid
\* record, or the page has one or two nodes and none is a valid record
Shapes(n) ==
    {q \in UNION {[1..m -> {"valid", "noid", "null"}] : m \in 0..n} :
        LET bad == Cardinality({i \in 1..Len(q) : q[i] # "valid"})
        IN  bad <= 1 \/ (bad = Len(q) /\ Len(q) <= 2)}

\* the nodes of a page of that shape: its valid nodes are the first records
\* after cursor c, in order
NodesOf(c, shape) ==
    [j \in 1..Len(shape) |->
        IF shape[j] = "valid"
        THEN RecordId(c, Cardinality({i \in 1..j : shape[i] = "valid"}))
        ELSE IF shape[j] = "noid" THEN NoId ELSE Null]

NoData == [hasData |-> FALSE, nodes |-> <<>>, hasNextPage |-> FALSE, endCursor |-> 0]

\* what a well-formed 200 response to fetch_repositories(c) may carry
Pages(c) ==
    {[hasData |-> TRUE, nodes |-> NodesOf(c, s), hasNextPage |-> h, endCursor |-> c + 1] :
        s \in Shapes(BATCH), h \in BOOLEAN}

Datas(c, who) == IF who = "fetch_repositories" THEN Pages(c) \cup {NoData} ELSE {NoData}

Ids(batch) == {batch[i] : i \in 1..Len(batch)}

\* Filter dropping the null nodes only
FilterNullOnly(nodes) == SelectSeq(nodes, LAMBDA r : r # Null)

\* main.py:92  repos = [r for r in repos if r and r.get('databaseId')]
Filter(nodes) == SelectSeq(nodes, LAMBDA r : r # Null /\ r # NoId)

--------------------------------------------------------------------------
(* GitHubGraphQLClient._execute_query *)

\* what requests.post may do: time out, fail to connect, or answer with a
\* status, the two rate-limit headers (absent: remaining 0, reset 0) and, for
\* a 200, a body with or without 'errors'
NetFailures ==
    {[net |-> n, st |-> 0, rem |-> 0, off |-> 0, body |-> "none", data |-> NoData] :
        n \in {"timeout", "connerr"}}

\* the reset header is read by the code only on the rate-limit path and
\* matters to the clock only with remaining = 0: elsewhere one value stands
\* for all
Headers(st) ==
    {h \in [rem : {0, 1}, off : ResetOffsets] :
        (h.rem = 1 /\ st # 403) => h.off = -Seconds(5000)}

Answer(st, h, b, d) ==
    [net |-> "resp", st |-> st, rem |-> h.rem, off |-> h.off, body |-> b, data |-> d]

Outcomes(c, who) ==
    NetFailures
    \cup {Answer(200, h, "ok", d) : h \in Headers(200), d \in Datas(c, who)}
    \cup {Answer(200, h, "errors", NoData) : h \in Headers(200)}
    \cup UNION {{Answer(st, h, "none", NoData) : h \in Headers(st)} :
                   st \in {202, 401, 403, 500}}

\* github_client.py:73,96,103  time.sleep(2 ** attempt)
Backoff(a) == Seconds(2 ^ a)

\* RetryAllowed with the bound off by one: the last pass sleeps and retries
RetryAllowedOffByOne(a) == a < max_retries

\* github_client.py:71,95,102  if attempt < max_retries - 1
RetryAllowed(a) == a < max_retries - 1

\* github_client.py:82  wait_time = max(reset_time - time.time() + 10, 60)
RateLimitWait(off) == Max(off + SAFETY_MARGIN, MIN_WAIT)

\* github_client.py:81  if response.status_code == 403 or remaining == 0
IsRateLimited(o) == o.st = 403 \/ o.rem = 0

Continue(k, s) == [act |-> "continue", kind |-> k, sl |-> s, err |-> "none"]
Raise(k, e) == [act |-> "raise", kind |-> k, sl |-> 0, err |-> e]
Return(k) == [act |-> "return", kind |-> k, sl |-> 0, err |-> "none"]

\* github_client.py:93-105: the two except clauses
OnRequestException(k, e, a) ==
    IF RetryAllowed(a) THEN Continue(k, Backoff(a)) ELSE Raise(k, e)

\* github_client.py:65-78: a 200 response
On200(o, a) ==
    IF o.body = "errors"
    THEN IF RetryAllowed(a) THEN Continue("gqlerr", Backoff(a)) ELSE Raise("gqlerr", "gql")
    ELSE Return("ok")

\* github_client.py:53-105: one pass of the for loop's body on outcome o
Classify(o, a) ==
    IF o.net = "timeout" THEN OnRequestException("timeout", "timeout", a)
    ELSE IF o.net = "connerr" THEN OnRequestException("connerr", "connerr", a)
    ELSE IF o.st = 200 THEN On200(o, a)
    ELSE IF IsRateLimited(o) THEN Continue("ratelimit", RateLimitWait(o.off))
    ELSE IF o.st = 401 THEN Raise("auth", "auth")
    \* response.raise_for_status(): HTTPError is a RequestException
    ELSE IF o.st >= 400 THEN OnRequestException("httperr", "httperr", a)
    \* no error status: the body of the loop ends, the next pass starts
    ELSE Continue("fallthrough", 0)

\* time left until reset + margin after outcome o and the sleep that followed
DueAfter(o, sl) ==
    IF o.net = "resp" /\ o.rem = 0 THEN Max(0, o.off + SAFETY_MARGIN - sl) ELSE 0

IsCleanOutcome(o, who) ==
    /\ o.net = "resp" /\ o.st = 200 /\ o.body = "ok"
    /\ who = "fetch_repositories" =>
         /\ o.data.hasData /\ o.data.nodes # <<>>
         /\ Filter(o.data.nodes) = o.data.nodes

\* github_client.py:52-107: one pass of the for loop; after the last pass a
\* 'continue' leaves the loop and line 107 raises "Max retries exceeded".
\* When the call ends its frame, and attempt with it, is gone.
ExecuteQuery(log) ==
    /\ pc = "call"
    /\ \E o \in Outcomes(cursor, caller) :
         LET r == Classify(o, attempt)
             again == r.act = "continue" /\ attempt + 1 < max_retries
         IN  /\ attempt' = IF again THEN attempt + 1 ELSE 0
             /\ pc' = IF again THEN "call" ELSE "ret"
             /\ result' = IF again THEN "none"
                          ELSE IF r.act = "continue" THEN "max"
                          ELSE IF r.act = "raise" THEN r.err
                          ELSE "data"
             /\ response' = IF r.act = "return" THEN o.data ELSE response
             /\ trace' = IF log
                         THEN Append(trace, [kind |-> r.kind, st |-> o.st,
                                             rem |-> o.rem, sl |-> r.sl])
                         ELSE trace
             /\ due' = DueAfter(o, r.sl)
             /\ dueStatus' = IF o.net = "resp" /\ o.rem = 0 /\ (again \/ due' > 0)
                             THEN o.st ELSE 0
             /\ clean' = (clean /\ IsCleanOutcome(o, caller))
    /\ UNCHANGED <<caller, repos, cursor, total_repos, repoTable, starTable,
                   stop, exitCode, summarized, exported>>
    /\ UNCHANGED storeVars

--------------------------------------------------------------------------
(* DatabaseManager.  Each call sends its whole batch in one transaction and *)
(* commits once (execute_batch with page_size = 1000 >= batch, then         *)
(* conn.commit()): it commits the batch or raises with nothing committed.   *)
(* A call may raise at any time: the rows cannot be built, the server       *)
(* rejects a statement, the connection is lost or is left in a failed       *)
(* transaction by an earlier error (no code path calls conn.rollback()).    *)

\* connection.py:67-91
UpsertCommit ==
    /\ pc = "upsert"
    /\ repoTable' = repoTable \cup Ids(repos)
    /\ pc' = "star"
    /\ UNCHANGED <<caller, attempt, result, trace, due, dueStatus,
                   response, repos, cursor, total_repos, starTable, stop,
                   exitCode, summarized, exported, clean>>
    /\ UNCHANGED storeVars

\* UpsertRaise with the error ending the loop
UpsertRaiseEnds ==
    /\ pc = "upsert"
    /\ pc' = "summary"
    /\ stop' = "nodata"
    /\ clean' = FALSE
    /\ UNCHANGED <<caller, attempt, result, trace, due, dueStatus,
                   response, repos, cursor, total_repos, repoTable, starTable,
                   exitCode, summarized, exported>>
    /\ UNCHANGED storeVars

\* connection.py:76-90 raising, caught at main.py:135-138
UpsertRaise ==
    /\ pc = "upsert"
    /\ pc' = "head"
    /\ clean' = FALSE
    /\ UNCHANGED <<caller, attempt, result, trace, due, dueStatus,
                   response, repos, cursor, total_repos, repoTable, starTable,
                   stop, exitCode, summarized, exported>>
    /\ UNCHANGED storeVars

\* connection.py:106-120
InsertStarCountsCommit ==
    /\ pc = "star"
    /\ starTable' = starTable \cup Ids(repos)
    /\ pc' = "count"
    /\ UNCHANGED <<caller, attempt, result, trace, due, dueStatus,
                   response, repos, cursor, total_repos, repoTable, stop,
                   exitCode, summarized, exported, clean>>
    /\ UNCHANGED storeVars

\* InsertStarCountsRaise with the error swallowed inside the store call
InsertStarCountsSwallow ==
    /\ pc = "star"
    /\ pc' = "count"
    /\ clean' = FALSE
    /\ UNCHANGED <<caller, attempt, result, trace, due, dueStatus,
                   response, repos, cursor, total_repos, repoTable, starTable,
                   stop, exitCode, summarized, exported>>
    /\ UNCHANGED storeVars

\* connection.py:112-119 raising, caught at main.py:135-138
InsertStarCountsRaise ==
    /\ pc = "star"
    /\ pc' = "head"
    /\ clean' = FALSE
    /\ UNCHANGED <<caller, attempt, result, trace, due, dueStatus,
                   response, repos, cursor, total_repos, repoTable, starTable,
                   stop, exitCode, summarized, exported>>
    /\ UNCHANGED storeVars

--------------------------------------------------------------------------
(* main *)

\* the state in which _execute_query is entered for the first time, called by who
Start(who) ==
    /\ pc = "call"
    /\ caller = who
    /\ attempt = 0
    /\ result = "none"
    /\ trace = <<>>
    /\ due = 0
    /\ dueStatus = 0
    /\ response = NoData
    /\ repos = <<>>
    /\ cursor = 0
    /\ total_repos = 0
    /\ repoTable = {}
    /\ starTable = {}
    /\ stop = "running"
    /\ exitCode = -1
    /\ summarized = FALSE
    /\ exported = FALSE
    /\ clean = TRUE
    /\ repositories = <<>>
    /\ repository_stars = {}
    /\ now = 0
    /\ lastOp = <<>>

\* main.py:49-63: connected, schema set up, check_rate_limit called
Init == Start("check_rate_limit")

\* main.py:63-76: check_rate_limit returned
CheckRateLimitOk ==
    /\ pc = "ret" /\ caller = "check_rate_limit" /\ result = "data"
    /\ pc' = "head"
    /\ result' = "none"
    /\ UNCHANGED <<caller, attempt, trace, due, dueStatus, response, repos,
                   cursor, total_repos, repoTable, starTable, stop,
                   exitCode, summarized, exported, clean>>
    /\ UNCHANGED storeVars

\* main.py:161-165: check_rate_limit raised
CheckRateLimitRaise ==
    /\ pc = "ret" /\ caller = "check_rate_limit" /\ result # "data"
    /\ pc' = "exit"
    /\ exitCode' = 1
    /\ stop' = "fatal"
    /\ UNCHANGED <<caller, attempt, result, trace, due, dueStatus,
                   response, repos, cursor, total_repos, repoTable, starTable,
                   summarized, exported, clean>>
    /\ UNCHANGED storeVars

\* LoopCond with <= for <
LoopCondInclusive(n) == n <= TARGET

\* main.py:79  while total_repos < target
LoopCond(n) == n < TARGET

\* main.py:79-82: the loop test, then the call of fetch_repositories.  The
\* locals response and repos of the pass before are dead once a new pass
\* starts (line 82 and line 89 assign them before any read): the model
\* forgets them there.
LoopHead ==
    /\ pc = "head"
    /\ IF LoopCond(total_repos)
       THEN /\ pc' = "call"
            /\ caller' = "fetch_repositories"
            /\ attempt' = 0
            /\ result' = "none"
            /\ trace' = <<>>
            /\ stop' = stop
            /\ response' = NoData
            /\ repos' = <<>>
       ELSE /\ pc' = "summary"
            /\ stop' = "target"
            /\ UNCHANGED <<caller, attempt, result, trace, response, repos>>
    /\ UNCHANGED <<due, dueStatus, cursor, total_repos,
                   repoTable, starTable, exitCode, summarized,
                   exported, clean>>
    /\ UNCHANGED storeVars

\* IsNoData without the test of the node list
IsNoDataKeyOnly(r) == ~r.hasData

\* main.py:85  'data' not in response or not response['data']['search']['nodes']
IsNoData(r) == ~r.hasData \/ r.nodes = <<>>

\* FetchReturn with an empty filtered batch ending the loop like an empty page
FetchReturnEmptyEnds ==
    /\ pc = "ret" /\ caller = "fetch_repositories" /\ result = "data"
    /\ result' = "none"
    /\ IF IsNoData(response) \/ Filter(response.nodes) = <<>>
       THEN /\ pc' = "summary"
            /\ stop' = "nodata"
            /\ repos' = repos
       ELSE /\ repos' = Filter(response.nodes)
            /\ pc' = "upsert"
            /\ stop' = stop
    /\ UNCHANGED <<caller, attempt, trace, due, dueStatus, response, cursor,
                   total_repos, repoTable, starTable, exitCode,
                   summarized, exported, clean>>
    /\ UNCHANGED storeVars

\* main.py:82-96: fetch_repositories returned
FetchReturn ==
    /\ pc = "ret" /\ caller = "fetch_repositories" /\ result = "data"
    /\ result' = "none"
    /\ IF IsNoData(response)
       THEN /\ pc' = "summary"
            /\ stop' = "nodata"
            /\ repos' = repos
       ELSE /\ repos' = Filter(response.nodes)
            /\ pc' = IF repos' = <<>> THEN "head" ELSE "upsert"
            /\ stop' = stop
    /\ UNCHANGED <<caller, attempt, trace, due, dueStatus, response, cursor,
                   total_repos, repoTable, starTable, exitCode,
                   summarized, exported, clean>>
    /\ UNCHANGED storeVars

\* main.py:135-138: fetch_repositories raised
FetchRaise ==
    /\ pc = "ret" /\ caller = "fetch_repositories" /\ result # "data"
    /\ pc' = "head"
    /\ result' = "none"
    /\ UNCHANGED <<caller, attempt, trace, due, dueStatus, response, repos,
                   cursor, total_repos, repoTable, starTable, stop,
                   exitCode, summarized, exported, clean>>
    /\ UNCHANGED storeVars

\* Count adding the size of the page as fetched
CountRawPage ==
    /\ pc = "count"
    /\ total_repos' = total_repos + Len(response.nodes)
    /\ pc' = "pageinfo"
    /\ UNCHANGED <<caller, attempt, result, trace, due, dueStatus,
                   response, repos, cursor, repoTable, starTable, stop,
                   exitCode, summarized, exported, clean>>
    /\ UNCHANGED storeVars

\* main.py:102  total_repos += len(repos)
Count ==
    /\ pc = "count"
    /\ total_repos' = total_repos + Len(repos)
    /\ pc' = "pageinfo"
    /\ UNCHANGED <<caller, attempt, result, trace, due, dueStatus,
                   response, repos, cursor, repoTable, starTable, stop,
                   exitCode, summarized, exported, clean>>
    /\ UNCHANGED storeVars

\* PageInfo leaving the cursor where it is
PageInfoKeepsCursor ==
    /\ pc = "pageinfo"
    /\ IF ~response.hasNextPage
       THEN /\ pc' = "summary"
            /\ stop' = "lastpage"
       ELSE /\ pc' = "sleep"
            /\ stop' = stop
    /\ UNCHANGED <<caller, attempt, result, trace, due, dueStatus,
                   response, repos, cursor, total_repos, repoTable, starTable,
                   exitCode, summarized, exported, clean>>
    /\ UNCHANGED storeVars

\* PageInfo without the test of hasNextPage
PageInfoNoBreak ==
    /\ pc = "pageinfo"
    /\ cursor' = response.endCursor
    /\ pc' = "sleep"
    /\ UNCHANGED <<caller, attempt, result, trace, due, dueStatus,
                   response, repos, total_repos, repoTable, starTable, stop,
                   exitCode, summarized, exported, clean>>
    /\ UNCHANGED storeVars

\* main.py:120-126
PageInfo ==
    /\ pc = "pageinfo"
    /\ IF ~response.hasNextPage
       THEN /\ pc' = "summary"
            /\ stop' = "lastpage"
            /\ cursor' = cursor
       ELSE /\ cursor' = response.endCursor
            /\ pc' = "sleep"
            /\ stop' = stop
    /\ UNCHANGED <<caller, attempt, result, trace, due, dueStatus,
                   response, repos, total_repos, repoTable, starTable,
                   exitCode, summarized, exported, clean>>
    /\ UNCHANGED storeVars

\* main.py:129  time.sleep(0.1)
CourtesySleep ==
    /\ pc = "sleep"
    /\ due' = Max(0, due - COURTESY_DELAY)
    /\ pc' = "head"
    /\ UNCHANGED <<caller, attempt, result, trace, dueStatus, response,
                   repos, cursor, total_repos, repoTable, starTable, stop,
                   exitCode, summarized, exported, clean>>
    /\ UNCHANGED storeVars

\* the statements of the try block, main.py:80-129
InTry ==
    /\ pc \in {"call", "ret", "upsert", "star", "count", "pageinfo", "sleep"}
    /\ caller = "fetch_repositories"

\* KeyboardInterruptInLoop with the handler ending the process
KeyboardInterruptExits ==
    /\ InTry
    /\ pc' = "exit"
    /\ exitCode' = 1
    /\ stop' = "interrupt"
    /\ clean' = FALSE
    /\ attempt' = 0
    /\ result' = "none"
    /\ UNCHANGED <<caller, trace, due, dueStatus,
                   response, repos, cursor, total_repos, repoTable, starTable,
                   summarized, exported>>
    /\ UNCHANGED storeVars

\* main.py:131-133: Ctrl-C raised anywhere in the try block
KeyboardInterruptInLoop ==
    /\ InTry
    /\ pc' = "summary"
    /\ stop' = "interrupt"
    /\ clean' = FALSE
    /\ attempt' = 0
    /\ result' = "none"
    /\ UNCHANGED <<caller, trace, due, dueStatus,
                   response, repos, cursor, total_repos, repoTable, starTable,
                   exitCode, summarized, exported>>
    /\ UNCHANGED storeVars

\* Ctrl-C raised before the loop or between two passes (main.py:63-79, the
\* loop test, the except clause at 135-138): no clause of main catches a
\* KeyboardInterrupt there, the process ends with a traceback and a non-zero
\* status
KeyboardInterruptOutside ==
    /\ pc \in {"call", "ret", "head"} /\ ~InTry
    /\ pc' = "exit"
    /\ exitCode' = 1
    /\ stop' = "killed"
    /\ clean' = FALSE
    /\ UNCHANGED <<caller, attempt, result, trace, due, dueStatus,
                   response, repos, cursor, total_repos, repoTable, starTable,
                   summarized, exported>>
    /\ UNCHANGED storeVars

\* main.py:141-151: get_total_repos and the summary
Summary ==
    /\ pc = "summary"
    /\ summarized' = TRUE
    /\ pc' = "export"
    /\ UNCHANGED <<caller, attempt, result, trace, due, dueStatus,
                   response, repos, cursor, total_repos, repoTable, starTable,
                   stop, exitCode, exported, clean>>
    /\ UNCHANGED storeVars

\* main.py:153-159 and the normal end of the process
Export ==
    /\ pc = "export"
    /\ exported' = TRUE
    /\ pc' = "exit"
    /\ exitCode' = 0
    /\ UNCHANGED <<caller, attempt, result, trace, due, dueStatus,
                   response, repos, cursor, total_repos, repoTable, starTable,
                   stop, summarized, clean>>
    /\ UNCHANGED storeVars

\* main.py:141-165: a statement of the summary or of the export raised
\* (get_total_repos, export_to_csv: sys.exit(1) at 161-165; a Ctrl-C is not
\* caught there and ends the process with a non-zero status too)
FatalError ==
    /\ pc \in {"summary", "export"}
    /\ pc' = "exit"
    /\ exitCode' = 1
    /\ clean' = FALSE
    /\ UNCHANGED <<caller, attempt, result, trace, due, dueStatus,
                   response, repos, cursor, total_repos, repoTable, starTable,
                   stop, summarized, exported>>
    /\ UNCHANGED storeVars

Next ==
    \/ ExecuteQuery(FALSE)
    \/ CheckRateLimitOk
    \/ CheckRateLimitRaise
    \/ LoopHead
    \/ FetchReturn
    \/ FetchRaise
    \/ UpsertCommit
    \/ UpsertRaise
    \/ InsertStarCountsCommit
    \/ InsertStarCountsRaise
    \/ Count
    \/ PageInfo
    \/ CourtesySleep
    \/ KeyboardInterruptInLoop
    \/ KeyboardInterruptOutside
    \/ Summary
    \/ Export
    \/ FatalError

Spec == Init /\ [][Next]_vars

--------------------------------------------------------------------------
(* _execute_query on its own: fetch_repositories(None) called again and     *)
(* again, each call logged request by request.                              *)

InitQuery == Start("fetch_repositories")

\* the caller takes the result and calls again
CallAgain ==
    /\ pc = "ret"
    /\ pc' = "call"
    /\ attempt' = 0
    /\ result' = "none"
    /\ trace' = <<>>
    /\ UNCHANGED <<caller, due, dueStatus, response, repos, cursor,
                   total_repos, repoTable, starTable, stop,
                   exitCode, summarized, exported, clean>>
    /\ UNCHANGED storeVars

NextQuery ==
    \/ ExecuteQuery(TRUE)
    \/ CallAgain

SpecQuery == InitQuery /\ [][NextQuery]_vars

--------------------------------------------------------------------------
(* Properties *)

\* the loop is over
Final == {"summary", "export", "exit"}

\* both store calls have committed the batch
Persisted(batch) == Ids(batch) \subseteq repoTable /\ Ids(batch) \subseteq starTable

\* a step of _execute_query: a request is sent at the time of the unprimed state
RequestStep == pc = "call" /\ pc' \in {"call", "ret"}

OnlyKind(k) == \A i \in 1..Len(trace) : trace[i].kind = k

\* C1: when fetch_repositories fails with the authentication error, the
\* crawl loop ends at once (Aborted): its next step leaves the loop, and no
\* further fetch is made.
C1_AuthErrorEndsLoop ==
    [][(pc = "ret" /\ caller = "fetch_repositories" /\ result = "auth")
          => pc' \in Final]_vars

\* C2: rate-limit responses take no retry slot: a call that has received
\* nothing but rate-limit responses, however many, has not failed.
C2_RateLimitTakesNoSlot ==
    ~(pc = "ret" /\ result # "data" /\ OnlyKind("ratelimit"))

\* C3: a response with status 401, whatever its rate-limit headers, ends the
\* call at once with the authentication error: no sleep follows it and no
\* further request.
C3_Status401FailsAtOnce ==
    \A i \in 1..Len(trace) :
        trace[i].st = 401 =>
            /\ i = Len(trace)
            /\ trace[i].sl = 0
            /\ pc = "ret" /\ result = "auth"

\* C4: with a fault-free source whose pages hold valid records only and all
\* report hasNextPage, the loop ends Completed right after the first page that
\* brings total_repos to the target or above: that page is persisted whole
\* (total_repos may exceed the target, the page before left it below), the
\* store holds exactly the total_repos records of the pages fetched, and once
\* the loop is over no fetch follows.
C4_CompletedOnWholePage ==
    /\ [](clean /\ pc \in Final /\ response.hasNextPage =>
            /\ stop = "target"
            /\ total_repos >= TARGET
            /\ total_repos - Len(repos) < TARGET
            /\ repos = response.nodes
            /\ Persisted(repos)
            /\ repoTable = starTable
            /\ Cardinality(repoTable) = total_repos
            /\ cursor = response.endCursor)
    /\ [][(pc \in Final) => (pc' \in Final)]_vars

C4_Witness ==
    /\ clean /\ pc = "exit" /\ stop = "target" /\ exitCode = 0
    /\ cursor >= 2
    /\ total_repos > TARGET

\* C5: with a fault-free source whose page reports hasNextPage = false while
\* total_repos is below the target, that page is persisted, the loop ends
\* Exhausted at its very next step with total_repos the number of records of
\* the pages persisted, and no fetch follows.
C5_ExhaustedOnLastPage ==
    /\ [](clean /\ pc \in Final /\ ~response.hasNextPage /\ total_repos < TARGET =>
            /\ stop = "lastpage"
            /\ repos = response.nodes
            /\ Persisted(repos)
            /\ repoTable = starTable
            /\ Cardinality(repoTable) = total_repos
            /\ cursor + 1 = response.endCursor)
    /\ [][(clean /\ clean' /\ pc = "pageinfo" /\ ~response.hasNextPage
              /\ total_repos < TARGET) =>
             (pc' = "summary" /\ stop' = "lastpage")]_vars
    /\ [][stop = "lastpage" => pc' \in Final]_vars

C5_Witness ==
    /\ clean /\ pc = "exit" /\ stop = "lastpage" /\ exitCode = 0
    /\ cursor >= 1
    /\ total_repos < TARGET

\* C6: cursor moves to the page's endCursor, and total_repos grows by the
\* size of the batch, only when both store calls have committed the batch;
\* a pass that ends in the except clause (the fetch or a store call raised)
\* leaves cursor and total_repos as they were.
C6_ProgressOnlyAfterCommit ==
    [][/\ cursor' # cursor =>
            (cursor' = response.endCursor /\ Persisted(repos) /\ repos # <<>>)
       /\ total_repos' # total_repos =>
            (total_repos' = total_repos + Len(repos) /\ Persisted(repos))
       /\ (pc \in {"ret", "upsert", "star"} /\ pc' = "head") =>
            (cursor' = cursor /\ total_repos' = total_repos)]_vars

\* a store call has failed, the page was fetched again and is now persisted
\* and counted, the cursor has moved
C6_Witness ==
    /\ ~clean /\ pc = "sleep"
    /\ cursor >= 1 /\ total_repos >= 1
    /\ Persisted(repos)

\* C7: whenever the loop has stopped on an interrupt, the last page it took
\* in hand is persisted by both store calls or by none.
C7_InterruptBetweenPagesOnly ==
    stop = "interrupt" =>
        (Ids(repos) \subseteq repoTable <=> Ids(repos) \subseteq starTable)

\* C8: after a response that reported remaining = 0 and reset time T, the
\* next request is sent no earlier than T + the safety margin, whatever the
\* status of that response.
C8_NextRequestAfterReset ==
    [][RequestStep => due = 0]_vars

\* The same for the responses the rate-limit branch sees, those with a status
\* other than 200: it holds, so every request sent too early follows a 200.
NextRequestAfterResetNon200 ==
    [][(RequestStep /\ dueStatus # 200) => due = 0]_vars

\* C9: a call whose requests all fail at the network level sends exactly
\* max_retries requests, sleeps after each but the last, and ends by raising
\* the last failure; it returns nothing and sends no further request.
C9_NetworkFailuresExhaustRetries ==
    /\ Len(trace) <= max_retries
    /\ (trace # <<>> /\ \A i \in 1..Len(trace) : trace[i].kind \in {"timeout", "connerr"}) =>
          /\ \A i \in 1..Len(trace) : (trace[i].sl > 0) = (i < max_retries)
          /\ pc = "call" => Len(trace) < max_retries
          /\ pc = "ret" =>
                /\ Len(trace) = max_retries
                /\ result = trace[max_retries].kind

C9_Witness ==
    /\ pc = "ret" /\ result = "connerr"
    /\ Len(trace) = max_retries
    /\ \A i \in 1..Len(trace) : trace[i].kind \in {"timeout", "connerr"}

\* how the crawl loop can end: Completed, Exhausted, Aborted by an interrupt
LoopEnds == {"target", "lastpage", "nodata", "interrupt"}

\* C10: however the loop ends (Completed, Exhausted, Aborted by an
\* interrupt), its next step is the summary, with no exit status set; the
\* export follows the summary and nothing else does; and the exit status
\* depends on the summary and the export alone, not on how the loop ended:
\* it is 0 when both completed, non-zero when a statement of them raised.
C10_SummaryThenExport ==
    /\ [][(stop = "running" /\ stop' \in LoopEnds) =>
             (pc' = "summary" /\ exitCode' = -1 /\ ~summarized' /\ ~exported')]_vars
    /\ [](stop \in LoopEnds =>
             /\ pc \in Final
             /\ exported => summarized
             /\ pc = "export" => (summarized /\ ~exported)
             /\ pc = "exit" => (exitCode = 0 <=> (summarized /\ exported))
             /\ pc # "exit" => exitCode = -1)
    /\ [][(stop \in LoopEnds /\ pc = "summary" /\ summarized') => pc' = "export"]_vars
    /\ [][(stop \in LoopEnds /\ pc = "export" /\ exported') =>
             (pc' = "exit" /\ exitCode' = 0)]_vars

\* an interrupted run has printed the summary, exported and exited with 0
C10_Witness ==
    /\ stop = "interrupt" /\ pc = "exit"
    /\ summarized /\ exported /\ exitCode = 0

--------------------------------------------------------------------------
(* Filtering, counting and the ways a pass ends *)

\* the node is a record with a databaseId
Valid(n) == n > 0

AllFiltered(nodes) == nodes # <<>> /\ \A i \in 1..Len(nodes) : ~Valid(nodes[i])

\* batch is nodes without its null and identity-less nodes, in the same order
KeptInOrder(batch, nodes) ==
    /\ \A i \in 1..Len(batch) : Valid(batch[i])
    /\ Len(batch) = Cardinality({k \in 1..Len(nodes) : Valid(nodes[k])})
    /\ \E f \in [1..Len(batch) -> 1..Len(nodes)] :
          /\ \A i \in 1..Len(batch) : nodes[f[i]] = batch[i]
          /\ \A i, j \in 1..Len(batch) : i < j => f[i] < f[j]

\* fetch_repositories has just returned to the loop
Returned == pc = "ret" /\ caller = "fetch_repositories" /\ result = "data"

StoreUntouched == repoTable' = repoTable /\ starTable' = starTable

ProgressUntouched == cursor' = cursor /\ total_repos' = total_repos

\* C11: the batch handed to upsert_repositories and insert_star_counts is
\* the page's nodes without those that are null or have no databaseId, in
\* the original order; no such node ever reaches a table; and a page that
\* holds such nodes does not end the loop.
C11_BatchIsFilteredPage ==
    /\ [](pc \in {"upsert", "star"} => KeptInOrder(repos, response.nodes))
    /\ [](\A x \in repoTable \cup starTable : Valid(x))
    /\ [][(Returned /\ (\E i \in 1..Len(response.nodes) : ~Valid(response.nodes[i]))
              /\ stop' # "interrupt") =>
             (stop' = "running" /\ pc' \in {"upsert", "head"})]_vars

\* a page whose second node of three is not a record is stored without it
C11_Witness ==
    /\ pc = "count"
    /\ Len(response.nodes) >= 3
    /\ ~Valid(response.nodes[2])
    /\ Len(repos) = Len(response.nodes) - 1
    /\ Persisted(repos)

\* C12: total_repos never decreases, and each change adds exactly the
\* size of the filtered batch that both store calls have just persisted,
\* which is below the size of the page when nodes were filtered out.
C12_TotalGrowsByPersistedBatch ==
    [][/\ total_repos' >= total_repos
       /\ total_repos' # total_repos =>
            /\ pc = "count"
            /\ total_repos' = total_repos + Len(repos)
            /\ KeptInOrder(repos, response.nodes)
            /\ Persisted(repos)
            /\ (\E i \in 1..Len(response.nodes) : ~Valid(response.nodes[i])) =>
                   total_repos' - total_repos < Len(response.nodes)]_vars

\* a page with a filtered node has been counted, after an earlier page
C12_Witness ==
    /\ pc = "pageinfo"
    /\ Len(repos) < Len(response.nodes)
    /\ total_repos > Len(repos)

\* C15: a page whose nodes are all filtered out leaves the loop running
\* with nothing persisted and cursor and total_repos unchanged, and the next
\* step of the loop is a fetch with the same cursor.
C15_EmptyBatchFetchesAgain ==
    /\ [][(Returned /\ AllFiltered(response.nodes) /\ stop' # "interrupt") =>
             (pc' = "head" /\ stop' = "running"
              /\ ProgressUntouched /\ StoreUntouched)]_vars
    /\ [][(pc = "head" /\ stop = "running" /\ AllFiltered(response.nodes)
              /\ stop' # "killed") =>
             (pc' = "call" /\ caller' = "fetch_repositories" /\ attempt' = 0
              /\ ProgressUntouched /\ StoreUntouched)]_vars

\* a second page, of two nodes, was filtered out whole
C15_Witness ==
    /\ pc = "head" /\ stop = "running"
    /\ Len(response.nodes) = 2 /\ AllFiltered(response.nodes)
    /\ cursor >= 1

\* how a fetch can fail without the authentication error
NonFatal == {"max", "timeout", "connerr", "httperr", "gql"}

\* C16: after a fetch that failed for good or a store call that raised, the
\* loop is still running with cursor and total_repos unchanged, and its next
\* step is a fetch at the same cursor; the loop ends only after a fetch that
\* returned, or by an interrupt.
C16_ErrorRetriesSameCursor ==
    /\ [][(pc = "ret" /\ caller = "fetch_repositories" /\ result \in NonFatal
              /\ stop' # "interrupt") =>
             (pc' = "head" /\ stop' = "running" /\ ProgressUntouched)]_vars
    /\ [][(pc \in {"upsert", "star"} /\ pc' \notin {"star", "count"}
              /\ stop' # "interrupt") =>
             (pc' = "head" /\ stop' = "running" /\ ProgressUntouched)]_vars
    /\ [][(pc = "head" /\ stop = "running" /\ total_repos < TARGET
              /\ stop' # "killed") =>
             (pc' = "call" /\ caller' = "fetch_repositories" /\ attempt' = 0
              /\ ProgressUntouched)]_vars
    /\ [][(stop = "running" /\ stop' \in {"target", "lastpage", "nodata"}) =>
             (Returned \/ pc = "pageinfo"
              \/ (pc = "head" /\ total_repos >= TARGET))]_vars

\* a store call has raised on the second page: the loop is back at its head
C16_Witness ==
    /\ pc = "head" /\ stop = "running"
    /\ cursor >= 1 /\ total_repos < TARGET
    /\ ~(Ids(repos) \subseteq starTable)

\* C17: a run ends Exhausted only with total_repos below the target: a
\* page that brings total_repos to the target ends the run Completed, also
\* when it reports hasNextPage = false.
C17_TargetCheckedFirst ==
    stop = "lastpage" => total_repos < TARGET

\* C18: the wait before attempt 2 is 2 s and the wait before attempt 3 is
\* 4 s, for timeouts, other request failures and GraphQL errors alike.
C18_RetrySchedule ==
    \A i \in 1..Len(trace) :
        (trace[i].kind \in {"timeout", "connerr", "httperr", "gqlerr"}
            /\ trace[i].sl > 0) => trace[i].sl = Seconds(2 ^ i)

\* C20: a response without 'data' or with an empty node list ends the loop
\* at once, with no store call and cursor and total_repos unchanged,
\* whatever the total and whatever the page before reported.
C20_NoDataEndsLoop ==
    /\ [][(Returned /\ (~response.hasData \/ response.nodes = <<>>)
              /\ stop' # "interrupt") =>
             (pc' = "summary" /\ stop' = "nodata"
              /\ ProgressUntouched /\ StoreUntouched)]_vars
    /\ [][stop = "nodata" =>
             (pc' \in Final /\ stop' = "nodata"
              /\ ProgressUntouched /\ StoreUntouched)]_vars

\* an empty page, with 'data', after a page that reported hasNextPage = true
C20_Witness ==
    /\ stop = "nodata" /\ pc = "exit" /\ exitCode = 0
    /\ response.hasData /\ response.nodes = <<>>
    /\ cursor >= 1 /\ total_repos < TARGET

\* the ids both store calls have committed in this run
BothCommitted == repoTable \cap starTable

\* C19: the pages of the source have pairwise disjoint ids (RecordId), and
\* in every run, with fetch failures, store failures and empty batches at
\* any point, whether or not a page fetched again comes back the same, each
\* id is counted once: total_repos is the number of ids both
\* store calls have committed, from the end of one pass to the second commit
\* of the next; between that commit and line 102 the batch just committed
\* is the whole difference, and it stays so when an interrupt ends the loop
\* there.
C19_EachIdCountedOnce ==
    /\ pc = "count" => total_repos + Len(repos) = Cardinality(BothCommitted)
    /\ (pc # "count" /\ stop # "interrupt") =>
          total_repos = Cardinality(BothCommitted)
    /\ stop = "interrupt" =>
          \/ total_repos = Cardinality(BothCommitted)
          \/ total_repos + Len(repos) = Cardinality(BothCommitted)

\* insert_star_counts had raised on the second page; the page was fetched
\* again with the same records, which are about to be stored again: they
\* are in repositories already, and not counted
C19_Witness ==
    /\ pc = "upsert" /\ cursor >= 1
    /\ Len(repos) = BATCH
    /\ Ids(repos) = repoTable \ starTable
    /\ total_repos = Cardinality(starTable) /\ total_repos >= 1

--------------------------------------------------------------------------
(* DatabaseManager, row by row.  A batch is sent as one INSERT per record,  *)
(* in order, in one transaction: CURRENT_TIMESTAMP is the same for all of   *)
(* them.  Time is counted in instants of the database clock.                *)

\* instants 0..MaxTime
MaxTime == 3

\* instants per period: recorded_at has the granularity of a day (the table
\* definition is in src/db/schema.sql, read by setup_schema)
DayLength == 2

Period(t) == t \div DayLength

StoreIds == 1..2

\* a record as the source reports it: version v of the fields of id
SourceRecord(id, v) ==
    [databaseId |-> id, name |-> v, owner |-> v, nameWithOwner |-> v,
     createdAt |-> v, updatedAt |-> v, stargazerCount |-> v]

SourceRecords == {SourceRecord(id, v) : id \in StoreIds, v \in 1..2}

StoreBatches == UNION {[1..m -> SourceRecords] : m \in 0..2}

\* connection.py:76-86: the tuple of a record, as a new row
NewRow(r, t) ==
    [id |-> r.databaseId, name |-> r.name, owner |-> r.owner,
     full_name |-> r.nameWithOwner, created_at |-> r.createdAt,
     updated_at |-> r.updatedAt, last_crawled_at |-> t]

\* UpsertRow with the conflict clause setting every column
UpsertRowReplaces(T, r, t) ==
    [x \in DOMAIN T \cup {r.databaseId} |->
        IF x = r.databaseId THEN NewRow(r, t) ELSE T[x]]

\* connection.py:67-73: INSERT ... ON CONFLICT (id) DO UPDATE SET
\* updated_at = EXCLUDED.updated_at, last_crawled_at = CURRENT_TIMESTAMP
UpsertRow(T, r, t) ==
    IF r.databaseId \in DOMAIN T
    THEN [T EXCEPT ![r.databaseId].updated_at = r.updatedAt,
                   ![r.databaseId].last_crawled_at = t]
    ELSE [x \in DOMAIN T \cup {r.databaseId} |->
             IF x = r.databaseId THEN NewRow(r, t) ELSE T[x]]

RECURSIVE Upsert(_, _, _)
\* connection.py:88-90: execute_batch over the tuples, then commit
Upsert(T, batch, t) ==
    IF batch = <<>> THEN T
    ELSE Upsert(UpsertRow(T, Head(batch), t), Tail(batch), t)

\* connection.py:112-115: the tuple of a record, as a new row; recorded_at
\* keeps of CURRENT_TIMESTAMP its period
StarRow(r, t) ==
    [repository_id |-> r.databaseId, star_count |-> r.stargazerCount,
     recorded_at |-> Period(t)]

Conflicts(S, r, t) ==
    {row \in S : row.repository_id = r.databaseId /\ row.recorded_at = Period(t)}

\* InsertStarRow with the conflict clause updating star_count
InsertStarRowUpdates(S, r, t) ==
    (S \ Conflicts(S, r, t)) \cup {StarRow(r, t)}

\* connection.py:106-110: INSERT ... ON CONFLICT (repository_id, recorded_at)
\* DO NOTHING
InsertStarRow(S, r, t) ==
    IF Conflicts(S, r, t) # {} THEN S ELSE S \cup {StarRow(r, t)}

RECURSIVE InsertStars(_, _, _)
\* connection.py:117-119: execute_batch over the tuples, then commit
InsertStars(S, batch, t) ==
    IF batch = <<>> THEN S
    ELSE InsertStars(InsertStarRow(S, Head(batch), t), Tail(batch), t)

\* the store on its own: connected, schema set up, tables empty
InitStore ==
    /\ pc = "store"
    /\ caller = "none"
    /\ attempt = 0
    /\ result = "none"
    /\ trace = <<>>
    /\ due = 0
    /\ dueStatus = 0
    /\ response = NoData
    /\ repos = <<>>
    /\ cursor = 0
    /\ total_repos = 0
    /\ repoTable = {}
    /\ starTable = {}
    /\ stop = "running"
    /\ exitCode = -1
    /\ summarized = FALSE
    /\ exported = FALSE
    /\ clean = TRUE
    /\ repositories = <<>>
    /\ repository_stars = {}
    /\ now = 0
    /\ lastOp = <<>>

\* db.upsert_repositories(batch)
StoreUpsert ==
    /\ pc = "store"
    /\ \E batch \in StoreBatches \ {<<>>} :
         /\ repositories' = Upsert(repositories, batch, now)
         /\ lastOp' = batch
    /\ UNCHANGED <<repository_stars, now>>
    /\ UNCHANGED crawlVars

\* db.insert_star_counts(batch)
StoreInsertStars ==
    /\ pc = "store"
    /\ \E batch \in StoreBatches \ {<<>>} :
         /\ repository_stars' = InsertStars(repository_stars, batch, now)
         /\ lastOp' = batch
    /\ UNCHANGED <<repositories, now>>
    /\ UNCHANGED crawlVars

\* the database clock moves on
Tick ==
    /\ pc = "store"
    /\ now < MaxTime
    /\ now' = now + 1
    /\ UNCHANGED <<repositories, repository_stars, lastOp>>
    /\ UNCHANGED crawlVars

NextUpsert ==
    \/ StoreUpsert
    \/ Tick

SpecUpsert == InitStore /\ [][NextUpsert]_vars

NextStars ==
    \/ StoreInsertStars
    \/ Tick

SpecStars == InitStore /\ [][NextStars]_vars

\* a store call with the batch of the call before it
Repeated == lastOp # <<>> /\ lastOp' = lastOp /\ now' = now

\* C13: upsert_repositories applied again with the same batch leaves table
\* repositories as the first application left it, and an upsert never
\* changes created_at, name, owner or full_name of a row already stored.
C13_UpsertIdempotent ==
    [][/\ Repeated => repositories' = repositories
       /\ \A id \in DOMAIN repositories :
            /\ id \in DOMAIN repositories'
            /\ repositories'[id].created_at = repositories[id].created_at
            /\ repositories'[id].name = repositories[id].name
            /\ repositories'[id].owner = repositories[id].owner
            /\ repositories'[id].full_name = repositories[id].full_name]_vars

\* the columns an upsert may change on conflict, but for the crawl timestamp
SameButLastCrawled(T1, T2) ==
    /\ DOMAIN T1 = DOMAIN T2
    /\ \A id \in DOMAIN T1 :
          [T1[id] EXCEPT !.last_crawled_at = 0] = [T2[id] EXCEPT !.last_crawled_at = 0]

\* C13 as amended: upsert_repositories applied again with the same batch
\* leaves the rows it found but for last_crawled_at, which takes the time of
\* the last application on every row of the batch (and stays on the others);
\* and an upsert never changes created_at, name, owner or full_name of a row
\* already stored, whatever the record holds.
C13_UpsertIdempotentButLastCrawled ==
    [][/\ Repeated =>
            /\ SameButLastCrawled(repositories, repositories')
            /\ \A id \in DOMAIN repositories :
                  repositories'[id].last_crawled_at =
                      IF \E i \in 1..Len(lastOp) : lastOp[i].databaseId = id
                      THEN now ELSE repositories[id].last_crawled_at
       /\ \A id \in DOMAIN repositories :
            /\ id \in DOMAIN repositories'
            /\ repositories'[id].created_at = repositories[id].created_at
            /\ repositories'[id].name = repositories[id].name
            /\ repositories'[id].owner = repositories[id].owner
            /\ repositories'[id].full_name = repositories[id].full_name
            /\ repositories'[id].last_crawled_at >= repositories[id].last_crawled_at]_vars

\* a row upserted again at a later instant by a record with other values:
\* updated_at follows, created_at and name do not
C13_Witness ==
    \E id \in DOMAIN repositories :
        /\ repositories[id].last_crawled_at > 0
        /\ repositories[id].updated_at # repositories[id].created_at
        /\ repositories[id].name = repositories[id].created_at
        /\ \E i \in 1..Len(lastOp) :
              lastOp[i].databaseId = id /\ lastOp[i].name # repositories[id].name

\* C14: table repository_stars holds at most one row per id and period,
\* the first written; a row once stored stays as it is; every record of a
\* call has its row for the period of the call afterwards, so that the same
\* id observed in two periods has two rows.
C14_StarsAppendOncePerPeriod ==
    /\ [](\A r1, r2 \in repository_stars :
            (r1.repository_id = r2.repository_id /\ r1.recorded_at = r2.recorded_at)
                => r1 = r2)
    /\ [][repository_stars \subseteq repository_stars']_vars
    /\ [][(now' = now /\ lastOp' # <<>>) =>
             \A i \in 1..Len(lastOp') :
                 \E row \in repository_stars' :
                     /\ row.repository_id = lastOp'[i].databaseId
                     /\ row.recorded_at = Period(now)]_vars
    /\ [][\A row \in repository_stars' \ repository_stars :
             /\ row.recorded_at = Period(now)
             /\ \E i \in 1..Len(lastOp') :
                   /\ lastOp'[i].databaseId = row.repository_id
                   /\ lastOp'[i].stargazerCount = row.star_count
                   /\ \A j \in 1..(i - 1) :
                         lastOp'[j].databaseId # row.repository_id]_vars

\* id 1 has a row in each of two periods, and the last call, at the second
\* instant of the later period, brought another value than the row holds
C14_Witness ==
    /\ now % DayLength = 1
    /\ Cardinality({row \in repository_stars : row.repository_id = 1}) = 2
    /\ \E row \in repository_stars :
          /\ row.repository_id = 1 /\ row.recorded_at = Period(now)
          /\ \E i \in 1..Len(lastOp) :
                /\ lastOp[i].databaseId = 1
                /\ lastOp[i].stargazerCount # row.star_count

==========================================================================
